---- MODULE Spec2Model ----
(***************************************************************************)
(* EV depot charging engine (src/engine.py) and its scenario comparison    *)
(* (src/run_demo.py): the charge-ASAP baseline, the greedy capacity- and   *)
(* concurrency-constrained scheduler, the cost model and the savings.      *)
(*                                                                         *)
(* Quantities are fixed-point integers.  Times are minutes of the day.     *)
(* Energy is counted in 1/Units kWh and power in 1/Units kW, where         *)
(* Units = Milli * SubMilli; a session's max_kw and the depot cap are      *)
(* whole kW.  Every input below makes the divisions by bin_hours exact, so  *)
(* the arithmetic is that of the reals, not of floating point.             *)
(***************************************************************************)
EXTENDS Integers, Sequences, FiniteSets

VARIABLES
    cfg,          \* config.yaml: bin width, chargers, scenario caps, tariff
    sessions,     \* the parsed session table, in input order
    time_index,   \* the grid: ordered bin starts
    pc,           \* position of the run
    bi, bt, bneeded, bload, bdelivered,   \* baseline_load_curve
    base_costs,
    cap, ss, gi, bins, needed, load, chargers, rows, delivered,  \* greedy
    costs, savings

vars == <<cfg, sessions, time_index, pc, bi, bt, bneeded, bload, bdelivered,
          base_costs, cap, ss, gi, bins, needed, load, chargers, rows,
          delivered, costs, savings>>

-----------------------------------------------------------------------------
(* Resolution and bounds *)

\* round(x, 3): three decimals are kept in the schedule rows
Milli == 1000
\* steps of the model below one thousandth
SubMilli == 5
Units == Milli * SubMilli
\* the loops run while needed_kwh > 1e-6
ToleranceInverse == 1000000

MaxSessions == 2
NumBins == 2

BinWidths == {15}
Starts == {0, 7}
Ends == {30, 37}
Energies == {3, (3 * Units) \div 4}
Kws == {1, 2}
Caps == {1, 2, 3}
ChargerLimits == {1, 2}
Tariffs ==
    { [flat_energy_rate_per_kwh |-> 2, demand_charge_per_kw |-> 1,
       tou_blocks |-> << >>],
      [flat_energy_rate_per_kwh |-> 1, demand_charge_per_kw |-> 2,
       tou_blocks |-> << [start_hour |-> 0, end_hour |-> 15, rate_per_kwh |-> 3],
                         [start_hour |-> 0, end_hour |-> 30, rate_per_kwh |-> 2] >>] }

SessionPool ==
    [earliest_start : Starts, latest_end : Ends,
     energy_kwh : Energies, max_kw : Kws]

SessionLists ==
    UNION { [1..n -> SessionPool] : n \in 1..MaxSessions }

-----------------------------------------------------------------------------
(* Helpers *)

Min(a, b) == IF a <= b THEN a ELSE b
Max(a, b) == IF a >= b THEN a ELSE b

Range(s) == { s[k] : k \in 1..Len(s) }

AboveTolerance(kwh) == kwh > (Units \div ToleranceInverse)

\* kw * bin_hours, in energy units (max_kw in whole kW)
KwTimesBinHours(kw, bin_minutes) == (kw * Units * bin_minutes) \div 60
\* kwh / bin_hours, in power units
PerBinHours(kwh, bin_minutes) == (kwh * 60) \div bin_minutes
\* power units * bin_hours, in energy units
TimesBinHours(p, bin_minutes) == (p * bin_minutes) \div 60

\* round(x, 3) of a non-negative quantity, ties to even
Round3(x) ==
    LET q == x \div SubMilli
        r == x % SubMilli
    IN  IF 2 * r < SubMilli THEN q * SubMilli
        ELSE IF 2 * r > SubMilli THEN (q + 1) * SubMilli
        ELSE (IF q % 2 = 0 THEN q ELSE q + 1) * SubMilli

make_time_index(start, end, bin_minutes) ==
    LET n == IF end > start THEN (end - start + bin_minutes - 1) \div bin_minutes
             ELSE 0
    IN  [k \in 1..n |-> start + (k - 1) * bin_minutes]

ZeroCurve(idx) == [t \in Range(idx) |-> 0]

-----------------------------------------------------------------------------
(* Tariff and cost model *)

tou_rate_for_ts(ts, tariff) ==
    LET blocks == tariff.tou_blocks
        h == ts % 1440     \* ts.hour + ts.minute/60, in minutes (block bounds too)
        hit == { k \in 1..Len(blocks) :
                   blocks[k].start_hour <= h /\ h < blocks[k].end_hour }
    IN  IF Len(blocks) = 0 THEN tariff.flat_energy_rate_per_kwh
        ELSE IF hit # {}
             THEN blocks[CHOOSE k \in hit : \A m \in hit : k <= m].rate_per_kwh
             ELSE tariff.flat_energy_rate_per_kwh

RECURSIVE SumSeq(_)
SumSeq(s) ==
    IF Len(s) = 0 THEN 0 ELSE SumSeq(SubSeq(s, 1, Len(s) - 1)) + s[Len(s)]

PeakOf(load_kw, idx) ==
    IF Len(idx) = 0 THEN 0
    ELSE CHOOSE m \in { load_kw[t] : t \in Range(idx) } :
             \A t \in Range(idx) : load_kw[t] <= m

estimate_costs(load_kw, idx, tariff, bin_minutes) ==
    LET kwh(t) == TimesBinHours(load_kw[t], bin_minutes)
        cost(t) == kwh(t) * tou_rate_for_ts(t, tariff)
        total_kwh == SumSeq([k \in 1..Len(idx) |-> kwh(idx[k])])
        energy_cost == SumSeq([k \in 1..Len(idx) |-> cost(idx[k])])
        peak_kw == PeakOf(load_kw, idx)
        demand_cost == peak_kw * tariff.demand_charge_per_kw
    IN  [total_kwh |-> total_kwh, peak_kw |-> peak_kw,
         energy_cost |-> energy_cost, demand_charge_cost |-> demand_cost,
         total_cost |-> energy_cost + demand_cost]

NoCosts == [total_kwh |-> 0, peak_kw |-> 0, energy_cost |-> 0,
            demand_charge_cost |-> 0, total_cost |-> 0]

\* (1 - scenario/base) * 100 if base else 0, as a fraction num/den
ReductionPct(scenario, base) ==
    IF base # 0 THEN [num |-> (base - scenario) * 100, den |-> base]
    ELSE [num |-> 0, den |-> 1]

Savings(c, b) ==
    [peak_kw_reduction_pct |-> ReductionPct(c.peak_kw, b.peak_kw),
     total_cost_savings |-> b.total_cost - c.total_cost,
     total_cost_savings_pct |-> ReductionPct(c.total_cost, b.total_cost)]

NoSavings == Savings(NoCosts, NoCosts)

-----------------------------------------------------------------------------
(* Greedy scheduler: pure parts *)

\* minutes of the window, clipped below at one bin: window_bins * bin_minutes
WindowMinutes(s, bin_minutes) ==
    Max(s.latest_end - s.earliest_start, bin_minutes)

\* energy_kwh / (max_kw * window_bins * bin_hours) as a fraction; the factor
\* 60 that turns the window's minutes into hours is common to all sessions
Tightness(s, bin_minutes) ==
    [num |-> s.energy_kwh, den |-> s.max_kw * WindowMinutes(s, bin_minutes)]

FracLess(a, b) == a.num * b.den < b.num * a.den

\* slip: the sort is on tightness alone
SortBeforeTightnessOnly(a, b, bin_minutes) ==
    FracLess(Tightness(b, bin_minutes), Tightness(a, bin_minutes))

\* sort_values(["tightness","earliest_start"], ascending=[False,True])
SortBefore(a, b, bin_minutes) ==
    LET ta == Tightness(a, bin_minutes)
        tb == Tightness(b, bin_minutes)
    IN  \/ FracLess(tb, ta)
        \/ (~FracLess(ta, tb) /\ ~FracLess(tb, ta)
            /\ a.earliest_start < b.earliest_start)

\* the row order of ss, as indices into the input table; the sort is stable:
\* a row goes after the rows that sort before it and after the earlier rows
\* that compare equal to it
SortSessions(tbl, bin_minutes) ==
    LET before(i, j) == SortBefore(tbl[i], tbl[j], bin_minutes)
        rank(i) == 1 + Cardinality({ j \in 1..Len(tbl) :
                        \/ before(j, i)
                        \/ (~before(i, j) /\ j < i) })
    IN  [p \in 1..Len(tbl) |-> CHOOSE i \in 1..Len(tbl) : rank(i) = p]

CandidateBins(s, idx) ==
    SelectSeq(idx, LAMBDA t : t >= s.earliest_start /\ t < s.latest_end)

\* slip: a bin is refused only once it is above the charger limit
IsFeasibleChargerOffByOne(t, kw, load_kw, chg, cap_kw, max_concurrent_chargers) ==
    /\ ~(chg[t] > max_concurrent_chargers)
    /\ ~(load_kw[t] + kw * Units > cap_kw * Units)

\* slip: the cap is compared with the load before the session is added
IsFeasibleCapBeforeAdding(t, kw, load_kw, chg, cap_kw, max_concurrent_chargers) ==
    /\ ~(chg[t] >= max_concurrent_chargers)
    /\ ~(load_kw[t] > cap_kw * Units)

IsFeasible(t, kw, load_kw, chg, cap_kw, max_concurrent_chargers) ==
    /\ ~(chg[t] >= max_concurrent_chargers)
    /\ ~(load_kw[t] + kw * Units > cap_kw * Units)

\* the (load + kw, load, t) tuples of the feasible bins, in bin order
FeasibleTuples(bs, kw, load_kw, chg, cap_kw, max_concurrent_chargers) ==
    LET ok == SelectSeq(bs, LAMBDA t :
                  IsFeasible(t, kw, load_kw, chg, cap_kw, max_concurrent_chargers))
    IN  [k \in 1..Len(ok) |-> <<load_kw[ok[k]] + kw * Units, load_kw[ok[k]], ok[k]>>]

KeyBefore(x, y) == x[1] < y[1] \/ (x[1] = y[1] /\ x[2] < y[2])

\* feasible.sort(key=lambda x: (x[0], x[1])), a stable sort
SortFeasible(feasible) ==
    LET rank(i) == 1 + Cardinality({ j \in 1..Len(feasible) :
                        \/ KeyBefore(feasible[j], feasible[i])
                        \/ (~KeyBefore(feasible[i], feasible[j]) /\ j < i) })
    IN  [p \in 1..Len(feasible) |->
            feasible[CHOOSE i \in 1..Len(feasible) : rank(i) = p]]

\* slip: the sort is taken descending
ChooseBinLast(feasible) == SortFeasible(feasible)[Len(feasible)][3]

\* t = feasible[0][2]
ChooseBin(feasible) == SortFeasible(feasible)[1][3]

\* slip: a full bin is delivered whatever is still needed
DeliverFullBin(needed_kwh, kw, bin_minutes) ==
    KwTimesBinHours(kw, bin_minutes)

Deliver(needed_kwh, kw, bin_minutes) ==
    Min(needed_kwh, KwTimesBinHours(kw, bin_minutes))

\* slip: the booked bin stays a candidate
RemoveNothing(bs, t) == bs

\* bins.remove(t)
RemoveBin(bs, t) == SelectSeq(bs, LAMBDA u : u # t)

-----------------------------------------------------------------------------
(* The run: baseline, then one scenario of the greedy scheduler, then costs *)

N == Len(sessions)

InitWith(c, tbl, idx) ==
    /\ cfg = c
    /\ sessions = tbl
    /\ time_index = idx
    /\ pc = "baseline_for"
    /\ bi = 0 /\ bt = 0 /\ bneeded = 0
    /\ bload = ZeroCurve(idx)
    /\ bdelivered = [k \in 1..Len(tbl) |-> 0]
    /\ base_costs = NoCosts
    /\ cap = 0
    /\ ss = << >>
    /\ gi = 0
    /\ bins = << >>
    /\ needed = 0
    /\ load = ZeroCurve(idx)
    /\ chargers = ZeroCurve(idx)
    /\ rows = << >>
    /\ delivered = [k \in 1..Len(tbl) |-> 0]
    /\ costs = NoCosts
    /\ savings = NoSavings

Configs ==
    [time_bin_minutes : BinWidths, max_concurrent_chargers : ChargerLimits,
     savings_scenarios : {Caps}, tariff : Tariffs]

Init ==
    \E c \in Configs, tbl \in SessionLists :
        InitWith(c, tbl, make_time_index(0, NumBins * c.time_bin_minutes,
                                         c.time_bin_minutes))

baselineVars == <<bi, bt, bneeded, bload, bdelivered, base_costs>>
greedyVars == <<cap, ss, gi, bins, needed, load, chargers, rows, delivered>>
inputVars == <<cfg, sessions, time_index>>

\* for _, s in sessions.iterrows(): needed_kwh, kw, t, end
BaselineBegin ==
    /\ pc = "baseline_for" /\ bi < N
    /\ bi' = bi + 1
    /\ bneeded' = sessions[bi + 1].energy_kwh
    /\ bt' = sessions[bi + 1].earliest_start
    /\ pc' = "baseline_while"
    /\ UNCHANGED <<inputVars, bload, bdelivered, base_costs, greedyVars,
                   costs, savings>>

\* slip: the walk advances only inside the grid
BaselineIterStuck ==
    /\ pc = "baseline_while"
    /\ AboveTolerance(bneeded) /\ bt < sessions[bi].latest_end
    /\ LET deliver == Min(bneeded, KwTimesBinHours(sessions[bi].max_kw,
                                                   cfg.time_bin_minutes))
       IN  IF bt \in Range(time_index)
           THEN /\ bload' = [bload EXCEPT ![bt] =
                                @ + PerBinHours(deliver, cfg.time_bin_minutes)]
                /\ bneeded' = bneeded - deliver
                /\ bdelivered' = [bdelivered EXCEPT ![bi] = @ + deliver]
                /\ bt' = bt + cfg.time_bin_minutes
           ELSE UNCHANGED <<bload, bneeded, bdelivered, bt>>
    /\ UNCHANGED <<inputVars, pc, bi, base_costs, greedyVars, costs, savings>>

\* one pass of: while needed_kwh > 1e-6 and t < end
BaselineIter ==
    /\ pc = "baseline_while"
    /\ AboveTolerance(bneeded) /\ bt < sessions[bi].latest_end
    /\ LET deliver == Min(bneeded, KwTimesBinHours(sessions[bi].max_kw,
                                                   cfg.time_bin_minutes))
       IN  IF bt \in Range(time_index)
           THEN /\ bload' = [bload EXCEPT ![bt] =
                                @ + PerBinHours(deliver, cfg.time_bin_minutes)]
                /\ bneeded' = bneeded - deliver
                /\ bdelivered' = [bdelivered EXCEPT ![bi] = @ + deliver]
           ELSE UNCHANGED <<bload, bneeded, bdelivered>>
    /\ bt' = bt + cfg.time_bin_minutes
    /\ UNCHANGED <<inputVars, pc, bi, base_costs, greedyVars, costs, savings>>

BaselineEndSession ==
    /\ pc = "baseline_while"
    /\ ~(AboveTolerance(bneeded) /\ bt < sessions[bi].latest_end)
    /\ pc' = "baseline_for"
    /\ UNCHANGED <<inputVars, baselineVars, greedyVars, costs, savings>>

\* return load; base_costs = estimate_costs(baseline, ...)
BaselineReturn ==
    /\ pc = "baseline_for" /\ bi = N
    /\ base_costs' = estimate_costs(bload, time_index, cfg.tariff,
                                    cfg.time_bin_minutes)
    /\ pc' = "scenario"
    /\ UNCHANGED <<inputVars, bi, bt, bneeded, bload, bdelivered, greedyVars,
                   costs, savings>>

\* one scenario: its cap; fresh load and chargers; the sorted table
GreedyStart ==
    /\ pc = "scenario"
    /\ \E c \in cfg.savings_scenarios : cap' = c
    /\ load' = ZeroCurve(time_index)
    /\ chargers' = ZeroCurve(time_index)
    /\ rows' = << >>
    /\ ss' = SortSessions(sessions, cfg.time_bin_minutes)
    /\ gi' = 0
    /\ pc' = "greedy_for"
    /\ UNCHANGED <<inputVars, baselineVars, bins, needed, delivered,
                   costs, savings>>

\* for _, s in ss.iterrows(): bins; if not bins: continue
GreedyBegin ==
    /\ pc = "greedy_for" /\ gi < N
    /\ gi' = gi + 1
    /\ LET s == sessions[ss[gi + 1]]
           bs == CandidateBins(s, time_index)
       IN  /\ bins' = bs
           /\ IF Len(bs) = 0
              THEN UNCHANGED <<pc, needed>>
              ELSE /\ needed' = s.energy_kwh
                   /\ pc' = "greedy_while"
    /\ UNCHANGED <<inputVars, baselineVars, cap, ss, load, chargers, rows,
                   delivered, costs, savings>>

Feasible ==
    FeasibleTuples(bins, sessions[ss[gi]].max_kw, load, chargers, cap,
                   cfg.max_concurrent_chargers)

\* one pass of the while loop that delivers into a bin
GreedyAllocate ==
    /\ pc = "greedy_while"
    /\ AboveTolerance(needed)
    /\ Len(Feasible) > 0
    /\ LET s == sessions[ss[gi]]
           t == ChooseBin(Feasible)
           deliver == Deliver(needed, s.max_kw, cfg.time_bin_minutes)
           used_kw == PerBinHours(deliver, cfg.time_bin_minutes)
       IN  /\ load' = [load EXCEPT ![t] = @ + used_kw]
           /\ chargers' = [chargers EXCEPT ![t] = @ + 1]
           /\ rows' = Append(rows, [session_id |-> ss[gi], bin_start |-> t,
                                    kw |-> Round3(used_kw),
                                    kwh |-> Round3(deliver)])
           /\ delivered' = [delivered EXCEPT ![ss[gi]] = @ + deliver]
           /\ needed' = needed - deliver
           /\ bins' = RemoveBin(bins, t)
    /\ UNCHANGED <<inputVars, baselineVars, pc, cap, ss, gi, costs, savings>>

\* the while loop ends: nothing needed any more, or no feasible bin (break)
GreedyEndSession ==
    /\ pc = "greedy_while"
    /\ (~AboveTolerance(needed) \/ Len(Feasible) = 0)
    /\ pc' = "greedy_for"
    /\ UNCHANGED <<inputVars, baselineVars, greedyVars, costs, savings>>

\* return schedule, load; costs and savings of the scenario
GreedyReturn ==
    /\ pc = "greedy_for" /\ gi = N
    /\ LET c == estimate_costs(load, time_index, cfg.tariff,
                               cfg.time_bin_minutes)
       IN  /\ costs' = c
           /\ savings' = Savings(c, base_costs)
    /\ pc' = "done"
    /\ UNCHANGED <<inputVars, baselineVars, greedyVars>>

Next ==
    \/ BaselineBegin
    \/ BaselineIter
    \/ BaselineEndSession
    \/ BaselineReturn
    \/ GreedyStart
    \/ GreedyBegin
    \/ GreedyAllocate
    \/ GreedyEndSession
    \/ GreedyReturn

Spec == Init /\ [][Next]_vars

\* The run is sequential: it takes its next step whenever it has one.  The
\* fair runs start from the sessions of 1 kW under the flat tariff.
FairInit ==
    \E c \in Configs, tbl \in SessionLists :
        /\ c.tariff.tou_blocks = << >>
        /\ \A k \in 1..Len(tbl) : tbl[k].max_kw = 1
        /\ InitWith(c, tbl, make_time_index(0, NumBins * c.time_bin_minutes,
                                            c.time_bin_minutes))

FairSpec == FairInit /\ [][Next]_vars /\ WF_vars(Next)

\* Session A 18:00-22:00 20 kWh 10 kW, session B 18:00-20:00 10 kWh 10 kW,
\* 15-minute bins from 18:00, cap 10 kW, one charger
ScenarioSessions ==
    << [earliest_start |-> 1080, latest_end |-> 1320,
        energy_kwh |-> 20 * Units, max_kw |-> 10],
       [earliest_start |-> 1080, latest_end |-> 1200,
        energy_kwh |-> 10 * Units, max_kw |-> 10] >>

ScenarioGridEnds == {1320, 1380, 1440}

ScenarioInit ==
    \E end \in ScenarioGridEnds, tariff \in Tariffs :
        InitWith([time_bin_minutes |-> 15, max_concurrent_chargers |-> 1,
                  savings_scenarios |-> {10}, tariff |-> tariff],
                 ScenarioSessions, make_time_index(1080, end, 15))

ScenarioSpec == ScenarioInit /\ [][Next]_vars

-----------------------------------------------------------------------------
(* Quantities the properties speak of *)

InGreedy == pc \in {"greedy_for", "greedy_while", "done"}

Bins == Range(time_index)

\* sum of the kWh of the schedule rows of input session i
RowKwh(i) ==
    SumSeq([k \in 1..Len(rows) |->
               IF rows[k].session_id = i THEN rows[k].kwh ELSE 0])

RowCount(i) == Cardinality({ k \in 1..Len(rows) : rows[k].session_id = i })

TotalRowKwh == SumSeq([k \in 1..Len(rows) |-> rows[k].kwh])

TotalRequested == SumSeq([k \in 1..N |-> sessions[k].energy_kwh])

TotalDelivered == SumSeq([k \in 1..N |-> delivered[k]])

NoSharedBin ==
    \A p, q \in 1..Len(rows) :
        p # q => rows[p].bin_start # rows[q].bin_start

-----------------------------------------------------------------------------
(* C1 *)

\* C1: in the greedy run, after every allocation step and in the result,
\* every grid bin has chargers(bin) <= max_concurrent_chargers and
\* load(bin) <= depot_power_cap_kw.
C1_CapAndChargersRespected ==
    InGreedy =>
        \A t \in Bins :
            /\ chargers[t] <= cfg.max_concurrent_chargers
            /\ load[t] <= cap * Units

\* a finished run with a bin filled to both limits and a session cut short
C1_Witness ==
    /\ pc = "done"
    /\ \E t \in Bins : /\ chargers[t] = cfg.max_concurrent_chargers
                       /\ load[t] = cap * Units
    /\ \E i \in 1..N : delivered[i] < sessions[i].energy_kwh

-----------------------------------------------------------------------------
(* C2 *)

\* C2 as stated: in the scenario the two sessions never share a bin and the
\* schedule delivers 30 kWh, 20 to A and 10 to B.
C2_ScenarioDeliversThirty ==
    pc = "done" =>
        /\ NoSharedBin
        /\ RowKwh(1) = 20 * Units
        /\ RowKwh(2) = 10 * Units
        /\ TotalRowKwh = 30 * Units

\* C2 amended: in the scenario the two sessions never share a bin; A, first
\* in the stable order, takes the eight bins 18:00-19:45, which are all of
\* B's window, so A receives 20 kWh, B receives 0 and 20 kWh are delivered.
C2_ScenarioDeliversTwenty ==
    pc = "done" =>
        /\ NoSharedBin
        /\ RowKwh(1) = 20 * Units
        /\ RowKwh(2) = 0
        /\ TotalRowKwh = 20 * Units
        /\ ss = <<1, 2>>
        /\ \A k \in 1..Len(rows) :
               rows[k].session_id = 1 /\ rows[k].bin_start < 1200

C2_Witness ==
    /\ pc = "done"
    /\ sessions = ScenarioSessions
    /\ Len(rows) = 8
    /\ chargers[1080] = 1 /\ chargers[1200] = 0

-----------------------------------------------------------------------------
(* C3 *)

BaselineFinished(i) == i < bi \/ (i = bi /\ pc # "baseline_while")

WindowInsideGrid(s) ==
    /\ Len(time_index) > 0
    /\ time_index[1] <= s.earliest_start
    /\ s.latest_end <= time_index[Len(time_index)] + cfg.time_bin_minutes

\* what max_kw can deliver over the length of the window
WindowCapacity(s) ==
    (s.max_kw * Units * (s.latest_end - s.earliest_start)) \div 60

\* C3: the baseline delivers to every session at most its energy_kwh, and
\* exactly its energy_kwh when its window lies inside the time grid, whether
\* or not earliest_start is a bin start.  The equality is asked only of the
\* sessions whose energy_kwh max_kw can deliver within the window: no walk of
\* the window delivers more.
C3_BaselineDeliversRequest ==
    \A i \in 1..N :
        BaselineFinished(i) =>
            /\ bdelivered[i] <= sessions[i].energy_kwh
            /\ (/\ WindowInsideGrid(sessions[i])
                /\ sessions[i].energy_kwh <= WindowCapacity(sessions[i]))
                   => bdelivered[i] = sessions[i].energy_kwh

-----------------------------------------------------------------------------
(* C4 *)

\* C4 as stated: at every step the sum of a session's ScheduleEntry kWh is
\* at most its energy_kwh, and the rows' total at most the total requested.
C4_RowsWithinRequest ==
    /\ \A i \in 1..N : RowKwh(i) <= sessions[i].energy_kwh
    /\ TotalRowKwh <= TotalRequested

\* C4 amended: at every step the energy delivered to a session (its unrounded
\* per-bin deliveries, which are what the load curve holds) is at most its
\* energy_kwh, so the total delivered is at most the total requested; the
\* kWh of a ScheduleEntry is that delivery rounded to 3 decimals, so the
\* sum of a session's rows is at most energy_kwh + 0.0005 kWh per row.
C4_DeliveredWithinRequest ==
    /\ \A i \in 1..N :
          /\ 0 <= delivered[i]
          /\ delivered[i] <= sessions[i].energy_kwh
          /\ 2 * Milli * RowKwh(i)
                 <= 2 * Milli * sessions[i].energy_kwh + RowCount(i) * Units
    /\ TotalDelivered <= TotalRequested
    /\ InGreedy =>
          SumSeq([k \in 1..Len(time_index) |->
                     TimesBinHours(load[time_index[k]], cfg.time_bin_minutes)])
              = TotalDelivered

\* a finished run where a session served in part ends short of its request
\* and the rounded kWh of another session's row exceeds what that one asked
C4_Witness ==
    /\ pc = "done"
    /\ \E i \in 1..N : /\ RowCount(i) >= 2
                       /\ delivered[i] < sessions[i].energy_kwh
    /\ \E i \in 1..N : /\ delivered[i] = sessions[i].energy_kwh
                       /\ RowKwh(i) > sessions[i].energy_kwh

-----------------------------------------------------------------------------
(* C5 *)

\* C5: no input session has two schedule rows with the same bin_start
\* (different sessions may share a bin).
C5_OneRowPerSessionAndBin ==
    \A p, q \in 1..Len(rows) :
        (p # q /\ rows[p].session_id = rows[q].session_id)
            => rows[p].bin_start # rows[q].bin_start

\* two sessions share a bin, and one session holds rows in two bins
C5_Witness ==
    /\ \E p, q \in 1..Len(rows) :
          /\ rows[p].session_id # rows[q].session_id
          /\ rows[p].bin_start = rows[q].bin_start
    /\ \E p, q \in 1..Len(rows) :
          /\ p # q
          /\ rows[p].session_id = rows[q].session_id

-----------------------------------------------------------------------------
(* C6 *)

\* C6: the peak_kw of the greedy load curve is at most the cap of its
\* scenario, whichever cap that is, and when the cap is below the baseline
\* peak_kw the greedy peak_kw is at most the baseline peak_kw.
C6_PeakWithinCap ==
    pc = "done" =>
        /\ costs.peak_kw <= cap * Units
        /\ cap * Units < base_costs.peak_kw
               => costs.peak_kw <= base_costs.peak_kw

\* the cap is below the baseline peak and the greedy peak reaches the cap
C6_Witness ==
    /\ pc = "done"
    /\ cap * Units < base_costs.peak_kw
    /\ costs.peak_kw = cap * Units

-----------------------------------------------------------------------------
(* C7 *)

\* C7: each of the three savings values is 0 when its baseline quantity is 0.
C7_SavingsZeroOnZeroBaseline ==
    pc = "done" =>
        /\ base_costs.peak_kw = 0 => savings.peak_kw_reduction_pct.num = 0
        /\ base_costs.total_cost = 0 =>
               /\ savings.total_cost_savings = 0
               /\ savings.total_cost_savings_pct.num = 0

-----------------------------------------------------------------------------
(* C8 *)

GreedyIterProgress ==
    /\ (pc = "greedy_while" /\ pc' = "greedy_while")
           => (needed' < needed /\ Len(bins') < Len(bins))
    /\ (pc = "greedy_while" /\ Len(Feasible) = 0) => pc' = "greedy_for"

BaselineIterProgress ==
    (pc = "baseline_while" /\ pc' = "baseline_while")
        => /\ bt < sessions[bi].latest_end
           /\ bt' = bt + cfg.time_bin_minutes

\* C8: every run ends: a pass of a session's greedy loop decreases its
\* remaining energy and removes a candidate bin, the loop stops when no bin
\* is feasible, a pass of a session's baseline loop moves the walk one bin
\* towards latest_end, and the run reaches its end.
C8_RunTerminates ==
    /\ [][GreedyIterProgress /\ BaselineIterProgress]_vars
    /\ <>(pc = "done")

\* a finished run that walked past an off-grid instant and allocated twice
C8_Witness ==
    /\ pc = "done"
    /\ Len(rows) >= 2
    /\ \E i \in 1..N : /\ sessions[i].energy_kwh > 0
                       /\ bdelivered[i] = 0

-----------------------------------------------------------------------------
(* C9 *)

IsOrderOfAll ==
    /\ Len(ss) = N
    /\ \A i \in 1..N : \E p \in 1..N : ss[p] = i

CeilWindow(s) ==
    LET m == cfg.time_bin_minutes
        d == s.latest_end - s.earliest_start
    IN  m * Max(1, (d + m - 1) \div m)

ClippedWindow(s) ==
    Max(s.latest_end - s.earliest_start, cfg.time_bin_minutes)

\* the order of ss under a tightness with denominator max_kw * window minutes,
\* the window rounded up to whole bins or not
OrderedBy(roundUp) ==
    LET w(s) == IF roundUp THEN CeilWindow(s) ELSE ClippedWindow(s)
    IN  \A p, q \in 1..Len(ss) :
            p < q =>
                LET a == sessions[ss[p]]
                    b == sessions[ss[q]]
                    ta == a.energy_kwh * (b.max_kw * w(b))
                    tb == b.energy_kwh * (a.max_kw * w(a))
                IN  \/ ta > tb
                    \/ (ta = tb /\ a.earliest_start < b.earliest_start)
                    \/ (ta = tb /\ a.earliest_start = b.earliest_start
                        /\ ss[p] < ss[q])

\* C9 as stated: sessions are taken by tightness descending, then
\* earliest_start ascending, then input order, where tightness divides by
\* window_bins = max(1, ceil((latest_end - earliest_start) / bin_width)).
C9_OrderWithCeilWindow ==
    InGreedy => (IsOrderOfAll /\ OrderedBy(TRUE))

\* C9 amended: the same order, where window_bins is
\* max(1, (latest_end - earliest_start) / bin_width) with no rounding up.
C9_OrderWithExactWindow ==
    InGreedy => (IsOrderOfAll /\ OrderedBy(FALSE))

\* the sort moved a later row first on tightness alone, or on earliest_start
\* between equally tight rows
C9_Witness ==
    /\ InGreedy /\ N = 2 /\ ss = <<2, 1>>
    /\ LET a == sessions[2]
           b == sessions[1]
       IN  /\ a.energy_kwh * b.max_kw * ClippedWindow(b)
                  = b.energy_kwh * a.max_kw * ClippedWindow(a)
           /\ a.earliest_start < b.earliest_start

-----------------------------------------------------------------------------
(* C10 *)

FeasibleSet ==
    { t \in Range(bins) :
        /\ chargers[t] < cfg.max_concurrent_chargers
        /\ load[t] + sessions[ss[gi]].max_kw * Units <= cap * Units }

\* C10: a pass of the allocation loop books a remaining candidate bin that is
\* feasible and has the least (load + max_kw, load) of the feasible
\* candidates, the earliest of those that have it; with no feasible candidate
\* the session's allocation stops and what it still needs is not delivered.
C10_LeastLoadedFeasibleBin ==
    [][ (pc = "greedy_while" /\ AboveTolerance(needed)) =>
          IF FeasibleSet = {}
          THEN /\ pc' = "greedy_for"
               /\ rows' = rows /\ load' = load /\ delivered' = delivered
          ELSE /\ Len(rows') = Len(rows) + 1
               /\ LET t == rows'[Len(rows')].bin_start
                      kw == sessions[ss[gi]].max_kw * Units
                  IN  /\ t \in FeasibleSet
                      /\ rows'[Len(rows')].session_id = ss[gi]
                      /\ load'[t] > load[t]
                      /\ \A u \in FeasibleSet :
                            \/ load[t] + kw < load[u] + kw
                            \/ (load[t] + kw = load[u] + kw /\ load[t] < load[u])
                            \/ (load[t] = load[u] /\ t <= u) ]_vars

\* a pass is about to choose among feasible candidates of which a later one
\* carries less load than an earlier one
C10_Witness ==
    /\ pc = "greedy_while" /\ AboveTolerance(needed)
    /\ \E t, u \in FeasibleSet : t < u /\ load[u] < load[t]

====
